---- MODULE Spec2Model ----
(***************************************************************************)
(* golangtokyo/chatserver: a chat log kept under one memcache key.         *)
(*                                                                         *)
(* The HTTP handlers of main.go run once per request, concurrently; they   *)
(* share nothing but the memcache item stored under messagesKey.  A        *)
(* handler is split into steps at its memcache calls: everything between   *)
(* two calls is local to the request and is part of the step that ends     *)
(* with the call.                                                          *)
(***************************************************************************)
EXTENDS Naturals, Sequences, FiniteSets, TLC

(* ---------------------------------------------------------------- bounds *)

\* Requests that arrive in one behaviour of Spec when the item is absent at
\* the start.
MaxReq == 3
\* Requests that arrive in one behaviour of Spec when the item is (nearly)
\* full at the start.
MaxFullReq == 2
\* Evictions of the item by memcache in one behaviour of Spec.
MaxEvict == 1
\* The item may already hold maxMessageNum - InitSlack .. maxMessageNum
\* messages of earlier requests when the observed requests arrive.
InitSlack == 1
\* Appends of the sequential client of SeqSpec.
MaxSeqReq == 52
\* Appends at the start and at the end of a sequential run whose payload is
\* chosen freely; the ones in between post a fixed message.
SeqFree == 2

(* ------------------------------------------------------------- constants *)

maxContentSizeInBytes == 256
maxMessageNum == 50

Min(a, b) == IF a < b THEN a ELSE b
Max(a, b) == IF a < b THEN b ELSE a

(* --------------------------------------------------------------- Message *)

\* type Message struct { Name string; Body string }
Message(n, b) == [name |-> n, body |-> b]
\* Message{}: the zero value
ZeroMessage == Message("", "")

(* ------------------------------------------------------- request payloads *)

\* A JSON field of the request object: a string, null, a number, or not there.
Str(s) == [t |-> "string", v |-> s]
Null == [t |-> "null", v |-> ""]
Num == [t |-> "number", v |-> ""]
Absent == [t |-> "absent", v |-> ""]

\* The request body as JSON text: something that is not JSON, the literal
\* null, an array, or an object with (or without) the members name and body.
JObject(n, b) == [kind |-> "object", name |-> n, body |-> b]
JNull == [kind |-> "null", name |-> Absent, body |-> Absent]
JArray == [kind |-> "array", name |-> Absent, body |-> Absent]
JSyntaxError == [kind |-> "syntaxerror", name |-> Absent, body |-> Absent]

\* r.Body: whether reading it fails, its length in bytes (JSON text can be
\* padded with white space to any length) and what it holds.
Body(len, json) == [readErr |-> FALSE, len |-> len, json |-> json]
BrokenBody == [readErr |-> TRUE, len |-> 0, json |-> JSyntaxError]
EmptyBody == Body(0, JSyntaxError)

\* A string member is stored, null or a missing member leaves the field at
\* its zero value.
DecodeField(f) == IF f.t = "string" THEN f.v ELSE ""

\* json.Unmarshal(reqBody, &message) with message := Message{}
Unmarshal(data) ==
  CASE data.kind = "syntaxerror" -> [err |-> "SyntaxError", message |-> ZeroMessage]
    [] data.kind = "array" -> [err |-> "UnmarshalTypeError", message |-> ZeroMessage]
    [] data.kind = "null" -> [err |-> "nil", message |-> ZeroMessage]
    [] data.kind = "object" ->
         IF data.name.t = "number" \/ data.body.t = "number"
           THEN [err |-> "UnmarshalTypeError",
                 message |-> Message(DecodeField(data.name), DecodeField(data.body))]
           ELSE [err |-> "nil",
                 message |-> Message(DecodeField(data.name), DecodeField(data.body))]

\* Mutant of TooBig: the limit is off by one.
TooBig_OffByOne(reqBody) == reqBody.len > maxContentSizeInBytes + 1

\* len(reqBody) > maxContentSizeInBytes
TooBig(reqBody) == reqBody.len > maxContentSizeInBytes

(* -------------------------------------------------------------- memcache *)

\* The item under messagesKey: whether it is there, the []Message it holds
\* and its compare-and-swap id (the last id given out, when it is not there).
NoItem(casID) == [present |-> FALSE, messages |-> <<>>, casID |-> casID]
Item(messages, casID) == [present |-> TRUE, messages |-> messages, casID |-> casID]

\* memcache.JSON.Get(ctx, messagesKey, &messages): the item and its cas id,
\* ErrCacheMiss when there is none, or a failure of the service.
Get(c) ==
  { IF c.present
      THEN [err |-> "nil", messages |-> c.messages, casID |-> c.casID]
      ELSE [err |-> "ErrCacheMiss", messages |-> <<>>, casID |-> 0],
    [err |-> "ErrServerError", messages |-> <<>>, casID |-> 0] }

\* memcache.JSON.Set(ctx, item): writes unconditionally; a failure of the
\* service writes nothing.
Set(c, object) ==
  { [err |-> "nil", cache |-> Item(object, c.casID + 1)],
    [err |-> "ErrServerError", cache |-> c] }

\* memcache.JSON.CompareAndSwap(ctx, item): writes if the stored item is the
\* one Get returned; ErrCASConflict if it was modified since, ErrNotStored
\* if it is gone.
CompareAndSwap(c, casID, object) ==
  { IF ~c.present THEN [err |-> "ErrNotStored", cache |-> c]
    ELSE IF c.casID # casID THEN [err |-> "ErrCASConflict", cache |-> c]
    ELSE [err |-> "nil", cache |-> Item(object, c.casID + 1)],
    [err |-> "ErrServerError", cache |-> c] }

(* ------------------------------------------------------------ the handlers *)

\* getMessages: "/", "/messages", "/messages.html" show the messages.
ShowsMessages(path) == path \in {"/", "/messages", "/messages.html"}

\* getMessages: the loop that fills messagesToShow, from its i-th round on
\* (i counts from 0 as in the code, sequences are indexed from 1).
RECURSIVE ReverseLoop(_, _, _)
ReverseLoop(messages, i, messagesToShow) ==
  IF i >= Len(messages) THEN messagesToShow
  ELSE ReverseLoop(messages, i + 1,
         [messagesToShow EXCEPT ![(Len(messages) - i - 1) + 1] = messages[i + 1]])

\* Mutant of Reverse: the copy is not reversed.
Reverse_Copy(messages) ==
  [i \in 1..Len(messages) |-> messages[i]]

\* getMessages: the reversed copy handed to the template:
\* make([]Message, len(messages)), then the loop.
Reverse(messages) ==
  ReverseLoop(messages, 0, [i \in 1..Len(messages) |-> ZeroMessage])

\* Mutants of GetStatus: a miss is an error like any other; the return after
\* http.Error is missing, and the page is written whatever Get returned.
GetStatus_MissIsError(err) ==
  IF err # "nil" THEN "StatusInternalServerError" ELSE "StatusOK"
GetStatus_NoReturn(err) == "StatusOK"

\* getMessages: the response after Get returned err.
GetStatus(err) ==
  IF err # "nil" /\ err # "ErrCacheMiss" THEN "StatusInternalServerError" ELSE "StatusOK"

\* Mutant of NewObject: the list is made without the message.
NewObject_Empty(message) == <<>>

\* postMessages, miss path: Object: []Message{message}
NewObject(message) == <<message>>

\* Mutants of AppendMessage: the cut keeps the first maxMessageNum; no cut.
AppendMessage_KeepFirst(messages, message) ==
  LET appended == Append(messages, message)
  IN IF Len(appended) > maxMessageNum
       THEN SubSeq(appended, 1, maxMessageNum)
       ELSE appended
AppendMessage_NoCut(messages, message) == Append(messages, message)
\* Two more: the cut starts one element too late; the message is put first.
AppendMessage_CutOneMore(messages, message) ==
  LET appended == Append(messages, message)
  IN IF Len(appended) > maxMessageNum
       THEN SubSeq(appended, Len(appended) - maxMessageNum + 2, Len(appended))
       ELSE appended
AppendMessage_Prepend(messages, message) ==
  LET appended == <<message>> \o messages
  IN IF Len(appended) > maxMessageNum
       THEN SubSeq(appended, Len(appended) - maxMessageNum + 1, Len(appended))
       ELSE appended

\* postMessages, hit path: append, then keep the last maxMessageNum.
AppendMessage(messages, message) ==
  LET appended == Append(messages, message)
  IN IF Len(appended) > maxMessageNum
       THEN SubSeq(appended, Len(appended) - maxMessageNum + 1, Len(appended))
       ELSE appended

\* Mutant of MissStore: the store writes only if there still is no item
\* (memcache.JSON.Add, which returns ErrNotStored otherwise).
MissStore_Add(c, object) ==
  { IF s.err = "nil" /\ c.present THEN [err |-> "ErrNotStored", cache |-> c] ELSE s :
      s \in Set(c, object) }

\* postMessages, miss path: the store it calls.
MissStore(c, object) == Set(c, object)

\* Mutants of HitStore: an unconditional Set; a CompareAndSwap of the item as
\* it is now, not as Get returned it; a Set after a conflict.
HitStore_Set(c, casID, object) == Set(c, object)
HitStore_FreshItem(c, casID, object) == CompareAndSwap(c, c.casID, object)
HitStore_SetOnConflict(c, casID, object) ==
  { IF s.err = "ErrCASConflict" THEN [err |-> s.err, cache |-> Item(object, c.casID + 1)] ELSE s :
      s \in CompareAndSwap(c, casID, object) }

\* postMessages, hit path: the store it calls, with the item Get returned.
HitStore(c, casID, object) == CompareAndSwap(c, casID, object)

\* postMessages: the response after Set returned err.
SetStatus(err) == IF err # "nil" THEN "StatusInternalServerError" ELSE "StatusCreated"

\* Mutants of CompareAndSwapStatus: the error is not looked at; an error is
\* answered like the error of Set.
CompareAndSwapStatus_Ignored(err) == "StatusCreated"
CompareAndSwapStatus_LikeSet(err) ==
  IF err # "nil" THEN "StatusInternalServerError" ELSE "StatusCreated"

\* postMessages: the response after CompareAndSwap returned err.
CompareAndSwapStatus(err) == IF err # "nil" THEN "StatusBadRequest" ELSE "StatusCreated"

\* Mutant of AfterGet: every error of Get is taken for a miss.
AfterGet_AnyErrorIsMiss(err) == IF err = "nil" THEN "hit" ELSE "miss"

\* postMessages: where the handler goes after Get returned err: on to
\* CompareAndSwap, on to Set, or it returns.
AfterGet(err) ==
  IF err = "nil" THEN "hit" ELSE IF err = "ErrCacheMiss" THEN "miss" ELSE "done"

\* Mutant of AfterStore: a failed store is followed by a Set.
AfterStore_SetAfterFailure(err) == IF err = "nil" THEN "done" ELSE "miss"

\* postMessages: where the handler goes after its store returned err: it
\* returns on every branch.
AfterStore(err) == "done"

(* ------------------------------------------------------------------ state *)

VARIABLES
  cache,    \* the memcache item under messagesKey
  reqs,     \* the requests: input, position in the handler, locals, response
  history,  \* the writes memcache applied, in order (not program state)
  limit     \* how many requests arrive in this behaviour (not program state)

vars == <<cache, reqs, history, limit>>

Reqs == 1..Max(MaxReq, MaxFullReq)

\* A request that has not arrived.  pc is the handler's position: "idle",
\* "miss" (before Set), "hit" (before CompareAndSwap), "done" (responded).
\* message, messages and casID are the handler's locals (messages is what Get
\* returned, casID the id in item); status, wrote and shown are the response:
\* the status code, what was written as the body ("error": a message of
\* http.Error or http.NotFound) and the messages given to the template.  The
\* rest records what the request did: the errors of its memcache calls, how
\* many it made, and how many writes and evictions had happened before its
\* Get.
Idle ==
  [method |-> "", path |-> "", body |-> EmptyBody, pc |-> "idle",
   message |-> ZeroMessage, messages |-> <<>>, casID |-> 0,
   status |-> "", wrote |-> "", shown |-> <<>>,
   getErr |-> "none", storeErr |-> "none", nget |-> 0, nstore |-> 0,
   gotAt |-> 0]

\* A request as it arrives.
Request(method, path, body) == [Idle EXCEPT !.method = method, !.path = path, !.body = body]

\* http.Error, http.NotFound: the handler responds and returns.
Error(r, status) == [r EXCEPT !.pc = "done", !.status = status, !.wrote = "error"]

\* postMessages before its first memcache call: the response that rejects
\* the request, "" if none does.
Rejection(r) ==
  IF r.path # "/messages" THEN "StatusNotFound"
  ELSE IF r.body.readErr THEN "StatusBadRequest"
  ELSE IF TooBig(r.body) THEN "StatusBadRequest"
  ELSE IF Unmarshal(r.body.json).err # "nil" THEN "StatusBadRequest"
  ELSE ""

(* ----------------------------------------------------------------- inputs *)

BodyA == Body(30, JObject(Str("a"), Str("hi")))
BodyB == Body(maxContentSizeInBytes, JObject(Str("b"), Str("yo")))
ValidBodies == {BodyA, BodyB}

\* What every request may be: an append (the handlers do not look into a
\* message, so the requests after the first post BodyB and BodyA in turn),
\* an append that is too big, a read.
CoreRequests(p) ==
  { Request("POST", "/messages", IF p % 2 = 0 THEN BodyB ELSE BodyA),
    Request("POST", "/messages", Body(maxContentSizeInBytes + 1, JObject(Str("a"), Str("hi")))),
    Request("GET", "/", EmptyBody) }

OtherBodies ==
  { Body(7, JSyntaxError),
    Body(maxContentSizeInBytes + 1, JSyntaxError),
    Body(12, JObject(Str("a"), Absent)),
    Body(12, JObject(Absent, Str("hi"))),
    Body(2, JObject(Absent, Absent)),
    Body(20, JObject(Null, Str("hi"))),
    Body(20, JObject(Str("a"), Num)),
    Body(4, JNull),
    Body(2, JArray),
    BrokenBody }

\* What the first request to arrive may be as well.
OtherRequests ==
  { Request("POST", "/messages", b) : b \in ValidBodies \cup OtherBodies } \cup
  { Request("GET", "/messages", EmptyBody),
    Request("HEAD", "/messages.html", EmptyBody),
    Request("GET", "/dev", EmptyBody),
    Request("GET", "/favicon.ico", EmptyBody),
    Request("POST", "/", Body(30, JObject(Str("a"), Str("hi")))),
    Request("PUT", "/messages", Body(30, JObject(Str("a"), Str("hi")))) }

Requests(p) == IF p = 1 THEN CoreRequests(p) \cup OtherRequests ELSE CoreRequests(p)

\* The messages of earlier requests the item may hold at the start.
Earlier(n) == [i \in 1..n |-> Message("old", ToString(i))]

FullItems ==
  { Item(Earlier(n), n) : n \in (maxMessageNum - InitSlack)..maxMessageNum }

(* ---------------------------------------------------------------- actions *)

Init ==
  /\ \/ cache = NoItem(0) /\ limit = MaxReq
     \/ cache \in FullItems /\ limit = MaxFullReq
  /\ reqs = [p \in Reqs |-> Idle]
  /\ history = <<>>

Write(op, p, message) == [op |-> op, req |-> p, message |-> message]

NEvict == Cardinality({i \in 1..Len(history) : history[i].op = "Evict"})

\* Request p is the next to arrive.
Arrives(p) ==
  /\ p <= limit
  /\ reqs[p].pc = "idle"
  /\ IF p = 1 THEN TRUE ELSE reqs[p - 1].pc # "idle"

\* getMessages: the whole handler (its one memcache call ends it).
getMessages(p, r) ==
  /\ Arrives(p)
  /\ r.method \in {"HEAD", "GET"}
  /\ \/ /\ r.path = "/dev"
        /\ \E isDevAppServer \in BOOLEAN :
             reqs' = [reqs EXCEPT ![p] =
                       IF isDevAppServer
                         THEN [r EXCEPT !.pc = "done", !.status = "StatusOK",
                                        !.wrote = "devForm"]
                         ELSE Error(r, "StatusNotFound")]
     \/ /\ ShowsMessages(r.path)
        /\ \E g \in Get(cache) :
             reqs' = [reqs EXCEPT ![p] =
                       [r EXCEPT !.pc = "done",
                                 !.getErr = g.err,
                                 !.nget = @ + 1,
                                 !.gotAt = Len(history),
                                 !.messages = g.messages,
                                 !.status = GetStatus(g.err),
                                 !.wrote = IF GetStatus(g.err) = "StatusOK"
                                             THEN "messagesHTML" ELSE "error",
                                 !.shown = IF GetStatus(g.err) = "StatusOK"
                                             THEN Reverse(g.messages) ELSE <<>>]]
     \/ /\ r.path # "/dev"
        /\ ~ShowsMessages(r.path)
        /\ reqs' = [reqs EXCEPT ![p] = Error(r, "StatusNotFound")]
  /\ UNCHANGED <<cache, history, limit>>

\* postMessages up to Get and the branch on its error.
postMessages(p, r) ==
  /\ Arrives(p)
  /\ r.method = "POST"
  /\ \/ /\ Rejection(r) # ""
        /\ reqs' = [reqs EXCEPT ![p] = Error(r, Rejection(r))]
     \/ /\ Rejection(r) = ""
        /\ \E g \in Get(cache) :
             reqs' = [reqs EXCEPT ![p] =
                       [r EXCEPT !.message = Unmarshal(r.body.json).message,
                                 !.getErr = g.err,
                                 !.nget = @ + 1,
                                 !.gotAt = Len(history),
                                 !.messages = g.messages,
                                 !.casID = g.casID,
                                 !.pc = AfterGet(g.err),
                                 !.status = IF g.err \in {"nil", "ErrCacheMiss"} THEN ""
                                            ELSE "StatusInternalServerError",
                                 !.wrote = IF g.err \in {"nil", "ErrCacheMiss"} THEN ""
                                           ELSE "error"]]
  /\ UNCHANGED <<cache, history, limit>>

\* handleSnippets: any other method.
methodNotAllowed(p, r) ==
  /\ Arrives(p)
  /\ r.method \notin {"HEAD", "GET", "POST"}
  /\ reqs' = [reqs EXCEPT ![p] = Error(r, "StatusMethodNotAllowed")]
  /\ UNCHANGED <<cache, history, limit>>

\* A request arrives: handleSnippets dispatches on the method, and the
\* handler runs up to its response or to its second memcache call.
handleSnippets(p, r) ==
  \/ getMessages(p, r)
  \/ postMessages(p, r)
  \/ methodNotAllowed(p, r)

\* postMessages, miss path: Set of the one-element list.
postMessagesSet(p) ==
  /\ reqs[p].pc = "miss"
  /\ \E s \in MissStore(cache, NewObject(reqs[p].message)) :
       /\ cache' = s.cache
       /\ history' = IF s.err = "nil"
                       THEN Append(history, Write("Set", p, reqs[p].message))
                       ELSE history
       /\ reqs' = [reqs EXCEPT ![p] =
                    [@ EXCEPT !.pc = AfterStore(s.err),
                              !.storeErr = s.err,
                              !.nstore = @ + 1,
                              !.status = SetStatus(s.err),
                              !.wrote = IF s.err # "nil" THEN "error" ELSE ""]]
  /\ UNCHANGED limit

\* postMessages, hit path: append, truncate, CompareAndSwap.
postMessagesCompareAndSwap(p) ==
  /\ reqs[p].pc = "hit"
  /\ \E s \in HitStore(cache, reqs[p].casID,
                       AppendMessage(reqs[p].messages, reqs[p].message)) :
       /\ cache' = s.cache
       /\ history' = IF s.err = "nil"
                       THEN Append(history, Write("CompareAndSwap", p, reqs[p].message))
                       ELSE history
       /\ reqs' = [reqs EXCEPT ![p] =
                    [@ EXCEPT !.pc = AfterStore(s.err),
                              !.storeErr = s.err,
                              !.nstore = @ + 1,
                              !.status = CompareAndSwapStatus(s.err),
                              !.wrote = IF s.err # "nil" THEN "error" ELSE ""]]
  /\ UNCHANGED limit

\* memcache drops the item.
Evict ==
  /\ cache.present
  /\ NEvict < MaxEvict
  /\ cache' = NoItem(cache.casID)
  /\ history' = Append(history, Write("Evict", 0, ZeroMessage))
  /\ UNCHANGED <<reqs, limit>>

Next ==
  \/ \E p \in Reqs : \E r \in Requests(p) : handleSnippets(p, r)
  \/ \E p \in Reqs : postMessagesSet(p)
  \/ \E p \in Reqs : postMessagesCompareAndSwap(p)
  \/ Evict

Spec == Init /\ [][Next]_vars

(* ------------------------------------------------- the sequential client *)

\* The successful writes so far.
NWritten == Cardinality({i \in 1..Len(history) : history[i].op # "Evict"})

\* What the k-th request of the sequential client posts: any valid body at
\* the start and at the end of the run, a fixed one in between.
SeqBodies(k) ==
  IF k <= SeqFree \/ k > MaxSeqReq - SeqFree
    THEN ValidBodies
    ELSE { Body(30, JObject(Str("old"), Str(ToString(k)))) }

SeqInit ==
  /\ cache = NoItem(0)
  /\ limit = 1
  /\ reqs = [p \in Reqs |-> Idle]
  /\ history = <<>>

\* The client posts its next message; memcache works.
SeqPost ==
  /\ NWritten < MaxSeqReq
  /\ \E b \in SeqBodies(NWritten + 1) : postMessages(1, Request("POST", "/messages", b))
  /\ reqs'[1].getErr # "ErrServerError"

SeqSet ==
  /\ postMessagesSet(1)
  /\ reqs'[1].storeErr # "ErrServerError"

SeqCompareAndSwap ==
  /\ postMessagesCompareAndSwap(1)
  /\ reqs'[1].storeErr # "ErrServerError"

\* The client has its response; the next request is a new one.
SeqReturn ==
  /\ reqs[1].pc = "done"
  /\ reqs' = [reqs EXCEPT ![1] = Idle]
  /\ UNCHANGED <<cache, history, limit>>

SeqNext == SeqPost \/ SeqSet \/ SeqCompareAndSwap \/ SeqReturn

SeqSpec == SeqInit /\ [][SeqNext]_vars

(* ----------------------------------------------------------------- claims *)

Range(seq) == {seq[i] : i \in 1..Len(seq)}

\* The last n elements of seq, all of it if it has fewer.
LastOf(seq, n) ==
  LET m == Min(n, Len(seq)) IN [i \in 1..m |-> seq[Len(seq) - m + i]]

\* p is a POST that got the item and has called CompareAndSwap.
TriedCompareAndSwap(p) ==
  /\ reqs[p].method = "POST"
  /\ reqs[p].getErr = "nil"
  /\ reqs[p].nstore = 1

\* p's CompareAndSwap returns in this step.
CompareAndSwapReturns(p) == reqs[p].pc = "hit" /\ reqs'[p].pc # "hit"

\* Where in history the write of p is, if p wrote.
WrittenAt(p) == CHOOSE i \in 1..Len(history) : history[i].req = p

\* q's CompareAndSwap returns in this step; p got the same item as q and has
\* called CompareAndSwap before; memcache answered both, and since their Gets
\* nobody but p wrote and memcache dropped nothing.
C1_Pair(p, q) ==
  /\ p # q
  /\ TriedCompareAndSwap(p)
  /\ CompareAndSwapReturns(q)
  /\ reqs[p].casID = reqs[q].casID
  /\ reqs[p].storeErr # "ErrServerError" /\ reqs'[q].storeErr # "ErrServerError"
  /\ \A i \in (Min(reqs[p].gotAt, reqs[q].gotAt) + 1)..Len(history) : history[i].req = p

\* C1: of two concurrent appends that got the same item, with no other write
\* or eviction in between (and memcache answering both stores), exactly one
\* CompareAndSwap succeeds and is answered Created: the one called first.
\* The other gets ErrCASConflict and is answered with a failure; the item
\* then is what the winner got plus the winner's message, which is its last
\* message, and the loser's message was not added.
C1_ExactlyOneWins ==
  [][\A p \in Reqs : \A q \in Reqs :
      C1_Pair(p, q) =>
        /\ reqs[p].storeErr = "nil" /\ reqs[p].status = "StatusCreated"
        /\ reqs'[q].storeErr = "ErrCASConflict" /\ reqs'[q].status = "StatusBadRequest"
        /\ cache'.present
        /\ cache'.messages = LastOf(reqs[p].messages \o <<reqs[p].message>>, maxMessageNum)
        /\ cache'.messages[Len(cache'.messages)] = reqs[p].message
        /\ (reqs[q].message # reqs[p].message /\ reqs[q].message \notin Range(reqs[p].messages))
             => reqs[q].message \notin Range(cache'.messages)]_vars

\* Two appends got the same item; one is stored, the other had a conflict,
\* and nothing was written since.
C1_Witness ==
  \E p \in Reqs : \E q \in Reqs :
    /\ p # q
    /\ TriedCompareAndSwap(p) /\ TriedCompareAndSwap(q)
    /\ reqs[p].casID = reqs[q].casID
    /\ reqs[p].storeErr = "nil" /\ reqs[q].storeErr = "ErrCASConflict"
    /\ reqs[p].message # reqs[q].message
    /\ WrittenAt(p) = Len(history)
    /\ \A i \in (Min(reqs[p].gotAt, reqs[q].gotAt) + 1)..Len(history) : history[i].req = p

\* C2: when a CompareAndSwap of the hit path succeeds, the item was still
\* exactly what the request got (nothing was written between its Get and its
\* store, so nothing of another writer is overwritten), and the item becomes
\* what it got plus its message, cut to the last maxMessageNum.
C2_SuccessfulSwapSawNoWrite ==
  [][\A p \in Reqs :
      (CompareAndSwapReturns(p) /\ reqs'[p].storeErr = "nil") =>
        /\ cache.present
        /\ cache.messages = reqs[p].messages
        /\ cache.casID = reqs[p].casID
        /\ Len(history) = reqs[p].gotAt
        /\ cache'.present
        /\ cache'.messages = LastOf(reqs[p].messages \o <<reqs[p].message>>, maxMessageNum)]_vars

\* A CompareAndSwap succeeded while another writer holds the same item.
C2_Witness ==
  \E p \in Reqs :
    /\ TriedCompareAndSwap(p) /\ reqs[p].storeErr = "nil"
    /\ \E q \in Reqs \ {p} : reqs[q].pc = "hit" /\ reqs[q].casID = reqs[p].casID

\* C3: a CompareAndSwap that fails on a stale item writes nothing: the item
\* and its cas id are what they were, the request is answered with a failure
\* and is over (a request that responded takes no further step).
C3_ConflictWritesNothing ==
  [][\A p \in Reqs :
      /\ (CompareAndSwapReturns(p) /\ reqs'[p].storeErr = "ErrCASConflict") =>
           /\ cache' = cache
           /\ history' = history
           /\ reqs'[p].pc = "done"
           /\ reqs'[p].status # "StatusCreated"
           /\ reqs'[p].nstore = 1 /\ reqs'[p].nget = 1
      /\ reqs[p].pc = "done" => reqs'[p] = reqs[p]]_vars

\* A request answered after a conflict, its message not in the item.
C3_Witness ==
  \E p \in Reqs :
    /\ reqs[p].pc = "done"
    /\ reqs[p].storeErr = "ErrCASConflict"
    /\ cache.present
    /\ reqs[p].message \notin Range(cache.messages)

\* The messages the sequential client has appended, in order.
Appended == [i \in 1..Len(history) |-> history[i].message]

\* C4: after the k-th of k valid appends made one after the other from an
\* absent item, with no eviction and no memcache failure, every append was
\* answered Created and the item holds the last min(k, maxMessageNum)
\* appended messages in the order they were appended.
C4_SequentialAppends ==
  LET k == Len(history)
  IN /\ cache.present <=> k > 0
     /\ Len(cache.messages) = Min(k, maxMessageNum)
     /\ cache.messages = LastOf(Appended, maxMessageNum)
     /\ reqs[1].pc = "done" => reqs[1].status = "StatusCreated"
     /\ reqs[1].pc \in {"miss", "hit"} => reqs[1].gotAt = k

\* More appends than the item holds: the oldest ones are gone.
C4_Witness ==
  /\ Len(history) = maxMessageNum + 2
  /\ reqs[1].pc = "done"
  /\ cache.messages[1] = Appended[3]
  /\ Appended[1] # Appended[2]

\* C5: the item never holds more than maxMessageNum messages, whatever the
\* interleaving of appends, reads and evictions.
C5_AtMostMaxMessageNum == Len(cache.messages) <= maxMessageNum

\* An append to a full item was stored.
C5_Witness ==
  \E p \in Reqs :
    /\ TriedCompareAndSwap(p) /\ reqs[p].storeErr = "nil"
    /\ Len(reqs[p].messages) = maxMessageNum
    /\ Len(history) = WrittenAt(p)
    /\ Len(cache.messages) = maxMessageNum

\* p is a POST that has stored and was answered Created.
Acknowledged(p) == reqs[p].method = "POST" /\ reqs[p].status = "StatusCreated"

\* p found no item, and so did another writer.
C6_RacingMiss(p) ==
  /\ reqs[p].getErr = "ErrCacheMiss"
  /\ \E q \in Reqs \ {p} : reqs[q].method = "POST" /\ reqs[q].getErr = "ErrCacheMiss"

\* C6: without eviction, a message answered Created is in the item until
\* maxMessageNum later writes, unless its writer found no item and raced
\* with another writer that found none either.
C6_AcknowledgedStays ==
  \A p \in Reqs :
    ( /\ Acknowledged(p)
      /\ NEvict = 0
      /\ ~C6_RacingMiss(p)
      /\ Len(history) - WrittenAt(p) < maxMessageNum )
    => (cache.present /\ reqs[p].message \in Range(cache.messages))

\* r is a POST to /messages whose body was read and is too big or does not
\* decode.
C7_BadPayload(r) ==
  /\ r.method = "POST" /\ r.path = "/messages" /\ ~r.body.readErr
  /\ r.body.len > maxContentSizeInBytes \/ Unmarshal(r.body.json).err # "nil"

\* C7: a POST whose body is longer than maxContentSizeInBytes or does not
\* decode is answered StatusBadRequest without any memcache call: no Get,
\* no store, and the item is unchanged by the request.
C7_RejectedBeforeMemcache ==
  /\ [](\A p \in Reqs :
          C7_BadPayload(reqs[p]) =>
            /\ reqs[p].pc = "done"
            /\ reqs[p].status = "StatusBadRequest"
            /\ reqs[p].nget = 0 /\ reqs[p].getErr = "none"
            /\ reqs[p].nstore = 0 /\ reqs[p].storeErr = "none")
  /\ [][\A p \in Reqs :
          (reqs'[p] # reqs[p] /\ C7_BadPayload(reqs'[p])) =>
            (cache' = cache /\ history' = history)]_vars

\* Rejected while the item is there: one body too big, one not JSON.
C7_Witness ==
  /\ cache.present
  /\ \E p \in Reqs : /\ C7_BadPayload(reqs[p])
                      /\ reqs[p].body.len > maxContentSizeInBytes
                      /\ Unmarshal(reqs[p].body.json).err = "nil"
  /\ \E p \in Reqs : /\ C7_BadPayload(reqs[p])
                      /\ reqs[p].body.len <= maxContentSizeInBytes

\* C8: a request, read or write, calls Get at most once and stores at most
\* once, never stores without having called Get before, a read never
\* stores, and a request that responded (after a conflict, an error or a
\* success) takes no further step.
C8_OneGetOneStore ==
  /\ [](\A p \in Reqs :
          /\ reqs[p].nget <= 1
          /\ reqs[p].nstore <= 1
          /\ reqs[p].nstore = 1 => reqs[p].nget = 1
          /\ reqs[p].method # "POST" => reqs[p].nstore = 0
          /\ reqs[p].getErr \notin {"nil", "ErrCacheMiss"} => reqs[p].nstore = 0)
  /\ [][\A p \in Reqs :
          /\ reqs'[p].nstore > reqs[p].nstore =>
               (reqs[p].nget = 1 /\ reqs[p].getErr \in {"nil", "ErrCacheMiss"})
          /\ reqs[p].pc = "done" => reqs'[p] = reqs[p]]_vars

\* A read, a write that failed at its store and a write that was stored.
C8_Witness ==
  /\ \E p \in Reqs : reqs[p].method = "GET" /\ reqs[p].pc = "done" /\ reqs[p].nget = 1
  /\ \E p \in Reqs : /\ reqs[p].pc = "done" /\ reqs[p].nstore = 1
                      /\ reqs[p].storeErr \in {"ErrCASConflict", "ErrNotStored", "ErrServerError"}
  /\ \E p \in Reqs : reqs[p].pc = "done" /\ reqs[p].nstore = 1 /\ reqs[p].storeErr = "nil"

\* The outcomes of an append.
C9_Outcomes ==
  {"StatusCreated", "StatusBadRequest", "StatusInternalServerError", "StatusNotFound"}

\* C9: an append ends with exactly one outcome: a request in flight can
\* always take its next step, that step is its last, it has an outcome
\* exactly when it has responded, and the outcome never changes.  The
\* outcome is Created exactly when the request's one store (Set or
\* CompareAndSwap) succeeded, that is exactly when memcache applied a write
\* of its message.
C9_CreatedIffStored ==
  /\ [](\A p \in Reqs : reqs[p].method = "POST" =>
          /\ reqs[p].pc = "done" <=> reqs[p].status \in C9_Outcomes
          /\ reqs[p].pc # "done" => reqs[p].status = ""
          /\ reqs[p].pc = "miss" => ENABLED postMessagesSet(p)
          /\ reqs[p].pc = "hit" => ENABLED postMessagesCompareAndSwap(p)
          /\ reqs[p].status = "StatusCreated" <=>
               (reqs[p].nstore = 1 /\ reqs[p].storeErr = "nil")
          /\ (reqs[p].nstore = 1 /\ reqs[p].storeErr = "nil") <=>
               (\E i \in 1..Len(history) :
                  history[i].req = p /\ history[i].message = reqs[p].message))
  /\ [][\A p \in Reqs :
          /\ reqs[p].status # "" => reqs'[p].status = reqs[p].status
          /\ (reqs[p].pc \in {"miss", "hit"} /\ reqs'[p] # reqs[p]) => reqs'[p].pc = "done"]_vars

\* One append stored by Set, one by CompareAndSwap, one that failed at its
\* store.
C9_Witness ==
  /\ \E p \in Reqs : Acknowledged(p) /\ reqs[p].getErr = "ErrCacheMiss"
  /\ \E p \in Reqs : Acknowledged(p) /\ reqs[p].getErr = "nil"
  /\ \E p \in Reqs : /\ reqs[p].method = "POST" /\ reqs[p].nstore = 1
                      /\ reqs[p].storeErr # "nil" /\ reqs[p].pc = "done"

\* C10: a read of "/", "/messages" or "/messages.html" that finds no item is
\* answered StatusOK with the page of an empty list of messages; a read
\* whose Get fails otherwise is answered StatusInternalServerError with an
\* error message and no list.
C10_ReadMissIsEmpty ==
  \A p \in Reqs :
    ( /\ reqs[p].method \in {"GET", "HEAD"}
      /\ reqs[p].path \in {"/", "/messages", "/messages.html"}
      /\ reqs[p].pc # "idle" )
    => /\ reqs[p].pc = "done" /\ reqs[p].nget = 1
       /\ reqs[p].getErr = "ErrCacheMiss" =>
            /\ reqs[p].status = "StatusOK"
            /\ reqs[p].wrote = "messagesHTML"
            /\ reqs[p].shown = <<>>
       /\ reqs[p].getErr \notin {"nil", "ErrCacheMiss"} =>
            /\ reqs[p].status = "StatusInternalServerError"
            /\ reqs[p].wrote = "error"
            /\ reqs[p].shown = <<>>

\* A read after an eviction that found nothing, and a read that failed.
C10_Witness ==
  /\ \E p \in Reqs : /\ reqs[p].method \in {"GET", "HEAD"}
                      /\ reqs[p].getErr = "ErrCacheMiss"
                      /\ reqs[p].gotAt > 0
  /\ \E p \in Reqs : /\ reqs[p].method \in {"GET", "HEAD"}
                      /\ reqs[p].getErr = "ErrServerError"

\* p is a read that was answered with the page of messages.
ReadReturned(p) ==
  /\ reqs[p].method \in {"GET", "HEAD"}
  /\ ShowsMessages(reqs[p].path)
  /\ reqs[p].status = "StatusOK"

\* C11: two reads answered with the page, with no write applied by memcache
\* and no eviction between them, were given the same messages, whatever
\* appends arrived, were rejected, failed or are still between their Get and
\* their store meanwhile; and as long as nothing is written after a read,
\* what it showed is the item as it is.
C11_ReadsAgree ==
  \A p \in Reqs : ReadReturned(p) =>
    /\ \A q \in Reqs :
         (ReadReturned(q) /\ reqs[q].gotAt = reqs[p].gotAt) =>
           (reqs[q].messages = reqs[p].messages /\ reqs[q].shown = reqs[p].shown)
    /\ reqs[p].gotAt = Len(history) =>
         (reqs[p].messages = cache.messages /\ reqs[p].shown = Reverse(cache.messages))

\* Two reads, on different paths, with nothing written between them and an
\* append that arrived between them and is still before its store.
C11_Witness ==
  \E p \in Reqs : \E q \in Reqs : \E w \in Reqs :
    /\ p < w /\ w < q
    /\ ReadReturned(p) /\ ReadReturned(q)
    /\ reqs[p].path # reqs[q].path
    /\ reqs[p].gotAt = reqs[q].gotAt
    /\ reqs[w].pc \in {"miss", "hit"}

\* p's Set returns in this step.
SetReturns(p) == reqs[p].pc = "miss" /\ reqs'[p].pc # "miss"

\* C12: an append that found no item stores the list of its one message by
\* an unconditional Set: whatever the item has become since its Get, Set
\* fails only if memcache fails; when it succeeds the item is exactly that
\* one message (maxMessageNum plays no part) and the answer is Created, when
\* it fails nothing is written and the answer is an internal server error.
C12_MissStoresOneMessage ==
  [][\A p \in Reqs : SetReturns(p) =>
      /\ reqs[p].getErr = "ErrCacheMiss" /\ reqs[p].messages = <<>>
      /\ reqs'[p].pc = "done"
      /\ reqs'[p].storeErr \in {"nil", "ErrServerError"}
      /\ reqs'[p].storeErr = "nil" =>
           /\ cache'.present
           /\ cache'.messages = <<reqs[p].message>>
           /\ Len(cache'.messages) = 1
           /\ cache'.casID > cache.casID
           /\ reqs'[p].status = "StatusCreated"
      /\ reqs'[p].storeErr # "nil" =>
           /\ cache' = cache
           /\ reqs'[p].status = "StatusInternalServerError"
           /\ reqs'[p].wrote = "error"]_vars

\* Three appends found no item: the Set of one was stored over the item
\* another had stored before, the Set of the third failed.
C12_Witness ==
  \E p \in Reqs : \E q \in Reqs : \E w \in Reqs :
    /\ reqs[p].getErr = "ErrCacheMiss" /\ reqs[p].status = "StatusCreated"
    /\ reqs[q].getErr = "ErrCacheMiss" /\ reqs[q].status = "StatusCreated"
    /\ WrittenAt(q) < WrittenAt(p) /\ WrittenAt(p) = Len(history)
    /\ reqs[p].gotAt < WrittenAt(q)
    /\ reqs[p].message # reqs[q].message
    /\ cache.messages = <<reqs[p].message>>
    /\ reqs[w].getErr = "ErrCacheMiss" /\ reqs[w].storeErr = "ErrServerError"
    /\ reqs[w].status = "StatusInternalServerError"

\* C13: a CompareAndSwap of the hit path that succeeds, by a request that got
\* L messages, stores min(L + 1, maxMessageNum) messages: the last one is the
\* request's message, the ones before it are the last
\* min(L, maxMessageNum - 1) messages the request got, in their order; when
\* it got maxMessageNum messages, exactly the oldest one is dropped.
C13_HitAppends ==
  [][\A p \in Reqs :
      (CompareAndSwapReturns(p) /\ reqs'[p].storeErr = "nil") =>
        LET got == reqs[p].messages
            L == Len(got)
            stored == cache'.messages
            kept == Min(L, maxMessageNum - 1)
        IN /\ Len(stored) = Min(L + 1, maxMessageNum)
           /\ stored[Len(stored)] = reqs[p].message
           /\ Len(stored) = kept + 1
           /\ \A i \in 1..kept : stored[i] = got[L - kept + i]
           /\ L = maxMessageNum =>
                \A i \in 1..(maxMessageNum - 1) : stored[i] = got[i + 1]
           /\ L < maxMessageNum => \A i \in 1..L : stored[i] = got[i]]_vars

\* An append to an item of maxMessageNum messages was stored: the oldest
\* message is gone, the second oldest is the first now.
C13_Witness ==
  \E p \in Reqs :
    /\ reqs[p].getErr = "nil" /\ reqs[p].status = "StatusCreated"
    /\ Len(reqs[p].messages) = maxMessageNum
    /\ WrittenAt(p) = Len(history)
    /\ cache.messages[1] = reqs[p].messages[2]
    /\ cache.messages[maxMessageNum] = reqs[p].message
    /\ reqs[p].messages[1] \notin Range(cache.messages)

\* C14: an append whose store, Set on the miss path or CompareAndSwap on the
\* hit path, fails for a reason that is neither a miss nor a conflict (a
\* failure of memcache) is answered with an internal server error, which is
\* not the answer a bad payload gets.
C14_StoreFailureIsInternalError ==
  \A p \in Reqs :
    (reqs[p].method = "POST" /\ reqs[p].storeErr = "ErrServerError") =>
      /\ reqs[p].status = "StatusInternalServerError"
      /\ reqs[p].status # "StatusBadRequest"

\* r is an append whose Get failed otherwise than by a miss.
C15_GetFailed(r) == r.method = "POST" /\ r.getErr \notin {"none", "nil", "ErrCacheMiss"}

\* C15: an append whose Get fails with an error that is not a miss is
\* answered with an internal server error at once and calls neither Set nor
\* CompareAndSwap: the step of its Get leaves the item as it is, and the
\* request takes no step after it.
C15_GetFailureStoresNothing ==
  /\ [](\A p \in Reqs :
          C15_GetFailed(reqs[p]) =>
            /\ reqs[p].pc = "done"
            /\ reqs[p].status = "StatusInternalServerError"
            /\ reqs[p].wrote = "error"
            /\ reqs[p].nget = 1
            /\ reqs[p].nstore = 0 /\ reqs[p].storeErr = "none"
            /\ \A i \in 1..Len(history) : history[i].req # p)
  /\ [][\A p \in Reqs :
          /\ (reqs'[p] # reqs[p] /\ C15_GetFailed(reqs'[p])) =>
               (cache' = cache /\ history' = history)
          /\ C15_GetFailed(reqs[p]) => reqs'[p] = reqs[p]]_vars

\* The Get of an append failed while the item was there, and another append
\* was stored after it.
C15_Witness ==
  \E p \in Reqs : \E q \in Reqs :
    /\ C15_GetFailed(reqs[p])
    /\ reqs[p].message # ZeroMessage
    /\ cache.present
    /\ p < q /\ reqs[q].status = "StatusCreated"
    /\ reqs[p].message \notin Range(cache.messages)

\* An append with a body that is too big: the request a bad input is.
C16_BadInput ==
  Request("POST", "/messages", Body(maxContentSizeInBytes + 1, JObject(Str("a"), Str("hi"))))

\* C16: an append whose CompareAndSwap returns ErrCASConflict is answered
\* with the status a bad payload is answered with, StatusBadRequest, not
\* with Created nor with an internal server error, and it ends there: it
\* has called Get once and stored once, and takes no further step.
C16_ConflictIsBadRequest ==
  /\ [](\A p \in Reqs :
          reqs[p].storeErr = "ErrCASConflict" =>
            /\ reqs[p].pc = "done"
            /\ reqs[p].status = Rejection(C16_BadInput)
            /\ reqs[p].status = "StatusBadRequest"
            /\ reqs[p].wrote = "error"
            /\ reqs[p].nget = 1 /\ reqs[p].nstore = 1)
  /\ [][\A p \in Reqs :
          reqs[p].storeErr = "ErrCASConflict" => reqs'[p] = reqs[p]]_vars

\* An append was answered StatusBadRequest after a conflict with an append
\* that was answered Created.
C16_Witness ==
  \E p \in Reqs : \E q \in Reqs :
    /\ reqs[p].storeErr = "ErrCASConflict"
    /\ reqs[p].status = "StatusBadRequest"
    /\ reqs[q].getErr = "nil" /\ reqs[q].status = "StatusCreated"
    /\ reqs[q].casID = reqs[p].casID

\* r is a POST to /messages whose body was read, is within the size limit,
\* and is not an object with both name and body present as strings.
C17_NotWellFormed(r) ==
  /\ r.method = "POST" /\ r.path = "/messages" /\ ~r.body.readErr
  /\ r.body.len <= maxContentSizeInBytes
  /\ \/ r.body.json.kind # "object"
     \/ r.body.json.name.t # "string"
     \/ r.body.json.body.t # "string"

\* C17: an append is accepted only if its payload is an object with both
\* name and body present as strings (possibly empty); a payload within the
\* size limit that lacks either is answered StatusBadRequest before any
\* memcache call, and nothing is stored.
C17_MissingFieldRejected ==
  \A p \in Reqs :
    C17_NotWellFormed(reqs[p]) =>
      /\ reqs[p].pc = "done"
      /\ reqs[p].status = "StatusBadRequest"
      /\ reqs[p].nget = 0 /\ reqs[p].nstore = 0
      /\ \A i \in 1..Len(history) : history[i].req # p

\* C18: the messages getMessages hands to the template are the messages it
\* got in reverse, newest first: as many, the i-th shown (from 0) being the
\* (len - 1 - i)-th got; the read leaves the item, which is oldest first, as
\* it is.
C18_ShownIsReverse ==
  /\ [](\A p \in Reqs : ReadReturned(p) =>
          LET got == reqs[p].messages
              shown == reqs[p].shown
              len == Len(got)
          IN /\ Len(shown) = len
             /\ \A i \in 0..(len - 1) : shown[i + 1] = got[(len - 1 - i) + 1]
             /\ reqs[p].gotAt = Len(history) => cache.messages = got)
  /\ [][\A p \in Reqs :
          (reqs'[p] # reqs[p] /\ reqs'[p].method \in {"GET", "HEAD"}) =>
            cache' = cache]_vars

\* A read after an append was stored: the first message shown is the one
\* just appended, the last shown is the oldest of the item.
C18_Witness ==
  \E p \in Reqs : \E q \in Reqs :
    /\ ReadReturned(p)
    /\ reqs[q].status = "StatusCreated"
    /\ reqs[p].gotAt = WrittenAt(q)
    /\ Len(reqs[p].shown) >= 2
    /\ reqs[p].shown[1] = reqs[q].message
    /\ reqs[p].shown[Len(reqs[p].shown)] = cache.messages[1]
    /\ reqs[p].shown[1] # cache.messages[1]

\* p's store returns in this step, and it succeeded.
Stores(p) ==
  /\ reqs[p].method = "POST"
  /\ reqs[p].pc \in {"miss", "hit"}
  /\ reqs'[p].storeErr = "nil" /\ reqs'[p].status = "StatusCreated"

\* C19: the step of a read never changes the item; the item changes only by
\* the successful Set or CompareAndSwap of an append, or by memcache
\* dropping it; it goes from present to absent only by memcache dropping
\* it, never by a step of a request; and an item that is there is never an
\* empty list.
C19_OnlyStoresChangeTheItem ==
  /\ [](cache.present => cache.messages # <<>>)
  /\ [][/\ \A p \in Reqs :
            (reqs'[p] # reqs[p] /\ reqs'[p].method \in {"GET", "HEAD"}) =>
              (cache' = cache /\ history' = history)
        /\ cache' # cache =>
            \/ \E p \in Reqs : Stores(p) /\ cache'.present
            \/ /\ reqs' = reqs
               /\ history' = Append(history, Write("Evict", 0, ZeroMessage))
        /\ (cache.present /\ ~cache'.present) =>
            /\ reqs' = reqs
            /\ history' = Append(history, Write("Evict", 0, ZeroMessage))
        /\ (\E p \in Reqs : reqs'[p] # reqs[p]) =>
            (cache.present => cache'.present)]_vars

\* Reads before and after an append was stored got different messages;
\* then memcache dropped the item.
C19_Witness ==
  \E p \in Reqs : \E q \in Reqs : \E w \in Reqs :
    /\ p < w /\ w < q
    /\ ReadReturned(p) /\ ReadReturned(q)
    /\ reqs[w].status = "StatusCreated"
    /\ reqs[q].gotAt = WrittenAt(w)
    /\ reqs[q].messages # reqs[p].messages
    /\ NEvict = 1 /\ ~cache.present

\* The last Set or eviction memcache applied, 0 if there was none: the item
\* was built from there on.
C20_LastReset ==
  LET resets == {i \in 1..Len(history) : history[i].op \in {"Set", "Evict"}}
  IN IF resets = {} THEN 0 ELSE CHOOSE i \in resets : \A j \in resets : j <= i

\* The messages of the stores that succeeded since (and with) the last Set,
\* or since the last eviction, or since the start, in the order in which they
\* succeeded.
C20_StoredSince ==
  LET from == IF C20_LastReset = 0 THEN 1
              ELSE IF history[C20_LastReset].op = "Evict" THEN C20_LastReset + 1
              ELSE C20_LastReset
  IN [i \in 1..(Len(history) - from + 1) |-> history[from + i - 1].message]

\* C20: whatever the interleaving of the appends, the item holds, after what
\* is left of the messages it held at the start, the messages of the stores
\* that succeeded since it was last set anew, one occurrence for each store,
\* in the order in which the stores succeeded, cut to the last
\* maxMessageNum; a request has at most one such store, which carries its
\* message, and has one exactly if its store succeeded.
C20_OnceAndInStoreOrder ==
  LET new == Min(Len(C20_StoredSince), maxMessageNum)
      old == Len(cache.messages) - new
  IN /\ Len(cache.messages) >= new
     /\ LastOf(cache.messages, new) = LastOf(C20_StoredSince, maxMessageNum)
     /\ C20_LastReset # 0 => old = 0
     /\ \E n \in 0..maxMessageNum : SubSeq(cache.messages, 1, old) = LastOf(Earlier(n), old)
     /\ \A i \in 1..Len(history) : history[i].op # "Evict" =>
          /\ history[i].req \in Reqs
          /\ history[i].message = reqs[history[i].req].message
          /\ reqs[history[i].req].storeErr = "nil"
          /\ \A j \in 1..Len(history) : history[j].req = history[i].req => j = i
     /\ \A p \in Reqs : reqs[p].storeErr = "nil" => \E i \in 1..Len(history) : history[i].req = p

\* Three appends whose stores succeeded in another order than they arrived
\* in: the second's Set, then the first's Set over it, then the third's
\* CompareAndSwap; the first and the third post the same message, which is
\* in the item twice.
C20_Witness ==
  /\ Len(history) = 3
  /\ history[1].req = 2 /\ history[2].req = 1 /\ history[3].req = 3
  /\ reqs[1].message = reqs[3].message
  /\ cache.messages = <<reqs[1].message, reqs[3].message>>

====
